---- MODULE Spec2Model ----
(***************************************************************************)
(* A model of the cache_diff derive macro (heroku-buildpacks/cache_diff).  *)
(*                                                                         *)
(* The derive crate holds two resolution pipelines:                        *)
(*   ParseContainer / ParseField          -> create_cache_diff_too         *)
(*       (the one the proc-macro entry point `cache_diff` calls), and      *)
(*   CacheDiffContainer / ParsedField     -> create_cache_diff.            *)
(* Both are modelled, together with the `diff` procedure each one emits.   *)
(*                                                                         *)
(* Conventions                                                             *)
(*   - a Rust String / LitStr is a sequence of one-character strings       *)
(*     (three characters are written by name: "BACKTICK", and in paths     *)
(*     "xFF" for a byte that is not UTF-8 and "uFFFD" for U+FFFD);         *)
(*   - a syn::Path is the sequence of its segment identifiers;             *)
(*   - Option<T> is a sequence of length 0 (None) or 1 (Some);             *)
(*   - syn::Result<T> is a record [tag, val, errs] with tag "Ok", "Err"    *)
(*     or "Panic" (unimplemented!()); errs is the message list of the      *)
(*     syn::Error (Error::combine appends to it).                          *)
(***************************************************************************)
EXTENDS Integers, Sequences, FiniteSets, TLC

VARIABLES
    field,      \* SpecField: the syn::Field handed to the field resolvers
    parsed,     \* SpecField: Option of ParsedField::from_field(field)
    parse,      \* SpecField: Option of ParseField::from_field(field)
    input,      \* the syn::DeriveInput (the record type declaration)
    container,  \* Option of CacheDiffContainer::from_ast(input)
    pcontainer, \* Option of ParseContainer::from_derive_input(input)
    impl,       \* Option of create_cache_diff(input)
    implToo,    \* Option of cache_diff(input) = create_cache_diff_too(input)
    now,        \* the receiver instance (self) of the diff calls
    old,        \* the argument instance (old) of the diff calls
    out,        \* Option of the Vec<String> returned by impl's diff
    outToo,     \* Option of the Vec<String> returned by implToo's diff
    itemAttrs,  \* SpecAttrs: the attributes (&[syn::Attribute]) of an item
    attrType,   \* SpecAttrs: the attribute enum T of attribute_lookup::<T>
    lookupResult, \* SpecAttrs: Option of attribute_lookup::<T>(itemAttrs)
    callers,    \* SpecCalls: the callers of diff, each with its position in
                \* the emitted procedure and its local `differences`
    back,       \* Option of the Vec<String> of the reverse call old.diff(&now)
                \* with impl's diff
    backToo     \* the same with implToo's diff

vars == <<field, parsed, parse, input, container, pcontainer,
          impl, implToo, now, old, out, outToo,
          itemAttrs, attrType, lookupResult, callers, back, backToo>>

----------------------------------------------------------------------------
(* Bounds of the explored inputs *)

MaxAttrs == 2
MaxNameLen == 2
MaxFields == 2
MaxTypeAttrs == 2
MaxEntries == 3

----------------------------------------------------------------------------
(* Options, results, strings *)

None == <<>>
Some(x) == <<x>>
IsSome(o) == Len(o) = 1
IsNone(o) == Len(o) = 0
Unwrap(o) == o[1]

Ok(v) == [tag |-> "Ok", val |-> Some(v), errs |-> <<>>]
Err(es) == [tag |-> "Err", val |-> None, errs |-> es]
Panic == [tag |-> "Panic", val |-> None, errs |-> <<>>]
\* the element of a singleton: The({e : x \in {v}}) is e with x bound to the
\* value of v, as a `let x = v;` binds it
The(S) == CHOOSE x \in S : TRUE

IsOk(r) == r.tag = "Ok"
IsErr(r) == r.tag = "Err"

NAMESPACE == "cache_diff"
MACRO_NAME == "CacheDiff"

S_custom == <<"c", "u", "s", "t", "o", "m">>
S_default == <<"d", "e", "f", "a", "u", "l", "t">>
S_reasons == <<"w", "h", "y">>

\* One message of a syn::Error.
Error(kind, key, span, fld, cont, valid, hint) ==
    [kind |-> kind, key |-> key, span |-> span, field |-> fld,
     container |-> cont, valid |-> valid, hint |-> hint]

SyntaxError(span) == Error("Syntax", "", span, <<>>, "", <<>>, FALSE)

----------------------------------------------------------------------------
(* Annotations as token groups: key, optional `= value` *)

\* vkind: "none" (bare key), "str" (string literal), "path" (function path)
Entry(key, vkind, val) == [key |-> key, vkind |-> vkind, val |-> val]

\* mutation of NamespaceEntries: only the first attribute of the item is read
NamespaceEntries_first_block(attrs) ==
    IF attrs = <<>> THEN <<>>
    ELSE IF Head(attrs).ns = NAMESPACE THEN Head(attrs).entries ELSE <<>>

\* the entries of all #[cache_diff(...)] blocks of an item, in source order
RECURSIVE NamespaceEntries(_)
NamespaceEntries(attrs) ==
    IF attrs = <<>> THEN <<>>
    ELSE (IF Head(attrs).ns = NAMESPACE THEN Head(attrs).entries ELSE <<>>)
         \o NamespaceEntries(Tail(attrs))

----------------------------------------------------------------------------
(* Field scope grammar: cache_diff_field.rs *)

\* KnownAttribute::iter() of both field-scope enums: declaration order
FieldKnownAttribute == <<"rename", "display", "ignore">>

\* T::from_str(name), T::iter() being keys
IsKnown(keys, key) == \E i \in DOMAIN keys : keys[i] = key

\* mutation of known_attribute: the message names no valid key
known_attribute_no_keys(keys, key, span) ==
    IF IsKnown(keys, key) THEN Ok(key)
    ELSE Err(<<Error("UnknownAttributeKey", key, span, <<>>, "", <<>>,
                     FALSE)>>)

\* shared::known_attribute::<T>, T::iter() being keys
known_attribute(keys, key, span) ==
    IF IsKnown(keys, key) THEN Ok(key)
    ELSE Err(<<Error("UnknownAttributeKey", key, span, <<>>, "", keys,
                     FALSE)>>)

\* cache_diff_field.rs, impl Parse for ParsedAttribute
ParsedAttribute_parse(e, span) ==
    IF ~IsKnown(FieldKnownAttribute, e.key)
    THEN Err(<<Error("UnknownAttributeKey", e.key, span, <<>>, "",
                     FieldKnownAttribute, e.key = "custom")>>)
    ELSE IF e.key = "rename"
    THEN IF e.vkind = "str"
         THEN Ok([key |-> "rename", inner |-> e.val])
         ELSE Err(<<SyntaxError(span)>>)
    ELSE IF e.key = "display"
    THEN IF e.vkind = "path"
         THEN Ok([key |-> "display", inner |-> e.val])
         ELSE Err(<<SyntaxError(span)>>)
    ELSE IF e.vkind = "none"
         THEN Ok([key |-> "ignore", inner |-> <<"IgnoreOther">>])
         ELSE IF e.vkind = "str"
         THEN IF e.val = S_custom
              THEN Ok([key |-> "ignore", inner |-> <<"IgnoreCustom">>])
              ELSE Ok([key |-> "ignore", inner |-> <<"IgnoreOther">>])
         ELSE Err(<<SyntaxError(span)>>)

----------------------------------------------------------------------------
(* Field scope grammar: parse_field.rs *)


\* mutation of KnownAttribute_parse: no hint is combined into the error
KnownAttribute_parse_no_hint(key, span) ==
    known_attribute(FieldKnownAttribute, key, span)

\* parse_field.rs, impl Parse for KnownAttribute
KnownAttribute_parse(key, span) ==
    LET r == known_attribute(FieldKnownAttribute, key, span)
    IN IF IsOk(r) THEN r
       ELSE IF key = "custom"
            THEN Err(r.errs \o <<Error("CustomScopeHint", key, span, <<>>, "",
                                       <<>>, TRUE)>>)
            ELSE r

\* parse_field.rs, impl Parse for ParseAttribute
ParseAttribute_parse(e, span) ==
    LET k == KnownAttribute_parse(e.key, span)
    IN IF ~IsOk(k) THEN k
       ELSE IF e.key = "rename"
       THEN IF e.vkind = "str"
            THEN Ok([key |-> "rename", inner |-> e.val])
            ELSE Err(<<SyntaxError(span)>>)
       ELSE IF e.key = "display"
       THEN IF e.vkind = "path"
            THEN Ok([key |-> "display", inner |-> e.val])
            ELSE Err(<<SyntaxError(span)>>)
       ELSE IF e.vkind = "none"
            THEN Ok([key |-> "ignore", inner |-> S_default])
            ELSE IF e.vkind = "str"
            THEN Ok([key |-> "ignore", inner |-> e.val])
            ELSE Err(<<SyntaxError(span)>>)

----------------------------------------------------------------------------
(* Type scope grammar: cache_diff_container.rs *)

\* KnownAttribute::iter() of both type-scope enums
ContainerKnownAttribute == <<"custom">>

\* cache_diff_container.rs, impl Parse for ParsedAttribute
ContainerParsedAttribute_parse(e, span) ==
    LET k == known_attribute(ContainerKnownAttribute, e.key, span)
    IN IF ~IsOk(k) THEN k
       ELSE IF e.vkind = "path"
            THEN Ok([key |-> "custom", inner |-> e.val])
            ELSE Err(<<SyntaxError(span)>>)

----------------------------------------------------------------------------
(* Type scope grammar: parse_container.rs *)

\* parse_container.rs, impl Parse for KnownAttribute
ContainerKnownAttribute_parse(key, span) ==
    IF IsKnown(ContainerKnownAttribute, key) THEN Ok(key)
    ELSE Err(<<Error("UnknownAttributeKey", key, span, <<>>, "",
                     ContainerKnownAttribute, FALSE)>>)

\* parse_container.rs, impl Parse for ParseAttribute
ContainerParseAttribute_parse(e, span) ==
    LET k == ContainerKnownAttribute_parse(e.key, span)
    IN IF ~IsOk(k) THEN k
       ELSE IF e.vkind = "path"
            THEN Ok([key |-> "custom", inner |-> e.val])
            ELSE Err(<<SyntaxError(span)>>)

----------------------------------------------------------------------------
(* shared.rs *)

\* mutation of FirstBad: the last failing element is taken
FirstBad_last(rs) ==
    CHOOSE i \in DOMAIN rs :
        /\ ~IsOk(rs[i])
        /\ \A j \in DOMAIN rs : j > i => IsOk(rs[j])

\* the element at which `?` returns: the first one that failed
FirstBad(rs) ==
    CHOOSE i \in DOMAIN rs :
        /\ ~IsOk(rs[i])
        /\ \A j \in DOMAIN rs : j < i => IsOk(rs[j])

\* T::parse of parse_attrs::<T>, T being one of the four attribute enums
T_parse(T, e, span) ==
    CASE T = "cache_diff_field::ParsedAttribute" ->
             ParsedAttribute_parse(e, span)
      [] T = "parse_field::ParseAttribute" -> ParseAttribute_parse(e, span)
      [] T = "cache_diff_container::ParsedAttribute" ->
             ContainerParsedAttribute_parse(e, span)
      [] T = "parse_container::ParseAttribute" ->
             ContainerParseAttribute_parse(e, span)

\* shared::parse_attrs: every entry is parsed in order; the first entry that
\* fails to parse ends the parse with that entry's error.
parse_attrs(attrs, T) ==
    LET es == NamespaceEntries(attrs)
    IN The({IF \E i \in DOMAIN rs : ~IsOk(rs[i])
            THEN Err(rs[FirstBad(rs)].errs)
            ELSE Ok([i \in DOMAIN rs |->
                        [attr |-> Unwrap(rs[i].val), span |-> i]]) :
            rs \in {[i \in DOMAIN es |-> T_parse(T, es[i], i)]}})

\* mutation of LookupLoop: the first occurrence of a key stays in `seen`
RECURSIVE LookupLoop_keep_first(_, _, _)
LookupLoop_keep_first(as, seen, errors) ==
    IF as = <<>> THEN [seen |-> seen, errors |-> errors]
    ELSE LET a == Head(as)
             key == a.attr.key
         IN IF key \in DOMAIN seen
            THEN LookupLoop_keep_first(Tail(as), seen,
                     errors \o <<Error("DuplicateAttribute", key, a.span,
                                       <<>>, "", <<>>, FALSE),
                                 Error("PreviouslyDefined", key,
                                       seen[key].span, <<>>, "", <<>>, FALSE)>>)
            ELSE LookupLoop_keep_first(Tail(as),
                     [k \in DOMAIN seen \cup {key} |->
                         IF k = key THEN a ELSE seen[k]],
                     errors)

\* the loop of shared::attribute_lookup over the parsed attributes:
\* seen.insert(key, attribute) keeps the last occurrence and reports the
\* replaced one.
RECURSIVE LookupLoop(_, _, _)
LookupLoop(as, seen, errors) ==
    IF as = <<>> THEN [seen |-> seen, errors |-> errors]
    ELSE LET a == Head(as)
             key == a.attr.key
         IN IF key \in DOMAIN seen
            THEN LookupLoop(Tail(as),
                     [k \in DOMAIN seen |-> IF k = key THEN a ELSE seen[k]],
                     errors \o <<Error("DuplicateAttribute", key, a.span,
                                       <<>>, "", <<>>, FALSE),
                                 Error("PreviouslyDefined", key,
                                       seen[key].span, <<>>, "", <<>>, FALSE)>>)
            ELSE LookupLoop(Tail(as),
                     [k \in DOMAIN seen \cup {key} |->
                         IF k = key THEN a ELSE seen[k]],
                     errors)

EmptyMap == [k \in {} |-> 0]

\* shared::attribute_lookup
attribute_lookup(attrs, T) ==
    The({IF ~IsOk(r) THEN r
         ELSE The({IF l.errors # <<>> THEN Err(l.errors) ELSE Ok(l.seen) :
                   l \in {LookupLoop(Unwrap(r.val), EmptyMap, <<>>)}}) :
         r \in {parse_attrs(attrs, T)}})

\* HashMap::remove as used on the lookup: the value under key, if any
Lookup(seen, key) ==
    IF key \in DOMAIN seen THEN Some(seen[key].attr) ELSE None

----------------------------------------------------------------------------
(* Field resolver: cache_diff_field.rs *)

\* mutation of is_pathbuf: the generic arguments of the last segment are
\* not looked at
is_pathbuf_any_arguments(ty) ==
    IF ty.kind = "path" /\ ty.segs # <<>>
    THEN ty.segs[Len(ty.segs)] = "PathBuf"
    ELSE FALSE

\* cache_diff_field.rs, is_pathbuf
is_pathbuf(ty) ==
    IF ty.kind = "path" /\ ty.segs # <<>>
    THEN ty.segs[Len(ty.segs)] = "PathBuf" /\ ~ty.args
    ELSE FALSE

PathDisplay == <<"std", "path", "Path", "display">>
Identity == <<"std", "convert", "identity">>

\* mutation of ReplaceUnderscore: only the first underscore is replaced
ReplaceUnderscore_first(s) ==
    [i \in DOMAIN s |->
        IF s[i] = "_" /\ (\A j \in 1..(i - 1) : s[j] # "_") THEN " "
        ELSE s[i]]

\* str::replace("_", " ")
ReplaceUnderscore(s) == [i \in DOMAIN s |-> IF s[i] = "_" THEN " " ELSE s[i]]

Active(name, display_fn, ident) ==
    [variant |-> "Active", name |-> name, display_fn |-> display_fn,
     field_identifier |-> ident]
IgnoredCustom ==
    [variant |-> "IgnoredCustom", name |-> <<>>, display_fn |-> <<>>,
     field_identifier |-> <<>>]
IgnoredOther ==
    [variant |-> "IgnoredOther", name |-> <<>>, display_fn |-> <<>>,
     field_identifier |-> <<>>]

\* mutation of FromIgnored: the reason is not looked at
FromIgnored_always_other(value) == IgnoredOther

\* impl From<Ignored> for ParsedField
FromIgnored(value) ==
    IF value = <<"IgnoreCustom">> THEN IgnoredCustom ELSE IgnoredOther

NamedFieldsOnly == Error("UnnamedField", "", 0, <<>>, "", <<>>, FALSE)

\* ParsedField::from_field
ParsedField_from_field(f) ==
    IF IsNone(f.ident) THEN Err(<<NamedFieldsOnly>>)
    ELSE
    The({IF ~IsOk(l) THEN l
         ELSE
         LET field_identifier == Unwrap(f.ident)
             seen == Unwrap(l.val)
             rename == Lookup(seen, "rename")
             display == Lookup(seen, "display")
             ignored == Lookup(seen, "ignore")
         IN IF IsSome(ignored)
            THEN IF IsSome(display) \/ IsSome(rename)
                 THEN Err(<<Error("ConflictingAttributes", "ignore", 0,
                                  field_identifier, "", <<>>, FALSE)>>)
                 ELSE Ok(FromIgnored(Unwrap(ignored).inner))
            ELSE LET name == IF IsSome(rename) THEN Unwrap(rename).inner
                             ELSE ReplaceUnderscore(field_identifier)
                     display_fn ==
                         IF IsSome(display) THEN Unwrap(display).inner
                         ELSE IF is_pathbuf(f.ty) THEN PathDisplay
                         ELSE Identity
                 IN Ok(Active(name, display_fn, field_identifier)) :
         l \in {attribute_lookup(f.attrs,
                                 "cache_diff_field::ParsedAttribute")}})

----------------------------------------------------------------------------
(* Field resolver: parse_field.rs *)

\* parse_field.rs, is_pathbuf
parse_field_is_pathbuf(ty) ==
    IF ty.kind = "path" /\ ty.segs # <<>>
    THEN ty.segs[Len(ty.segs)] = "PathBuf" /\ ~ty.args
    ELSE FALSE

\* ParseField::from_field
ParseField_from_field(f) ==
    IF IsNone(f.ident) THEN Err(<<NamedFieldsOnly>>)
    ELSE
    The({IF ~IsOk(l) THEN l
         ELSE
         LET ident == Unwrap(f.ident)
             lookup == Unwrap(l.val)
             rename == Lookup(lookup, "rename")
             display == Lookup(lookup, "display")
             ignore == Lookup(lookup, "ignore")
             name == IF IsSome(rename) THEN Unwrap(rename).inner
                     ELSE ReplaceUnderscore(ident)
             display_fn ==
                 IF IsSome(display) THEN Unwrap(display).inner
                 ELSE IF parse_field_is_pathbuf(f.ty) THEN PathDisplay
                 ELSE Identity
         IN Ok([ident |-> ident, name |-> name,
                ignore |-> IF IsSome(ignore) THEN Some(Unwrap(ignore).inner)
                           ELSE None,
                display |-> display_fn]) :
         l \in {attribute_lookup(f.attrs, "parse_field::ParseAttribute")}})

----------------------------------------------------------------------------
(* Container resolver: cache_diff_container.rs *)

MissingCustomHook(fld, cont) ==
    Error("MissingCustomHook", "custom", 0, fld, cont, <<>>, FALSE)
NoComparableFields(cont) ==
    Error("NoComparableFields", "", 0, <<>>, cont, <<>>, FALSE)
UnsupportedShape(cont) ==
    Error("UnsupportedShape", "", 0, <<>>, cont, <<>>, FALSE)

\* mutation of FromAstFields: an Active field is put in front of the
\* fields collected so far
RECURSIVE FromAstFields_prepend(_, _, _, _, _)
FromAstFields_prepend(named, identifier, container_custom, fields, errors) ==
    IF named = <<>> THEN [fields |-> fields, errors |-> errors]
    ELSE
    LET ast_field == Head(named)
    IN The({FromAstFields_prepend(Tail(named), identifier, container_custom,
                IF IsOk(r) /\ Unwrap(r.val).variant = "Active"
                THEN <<Unwrap(r.val)>> \o fields
                ELSE fields,
                IF ~IsOk(r) THEN errors \o r.errs
                ELSE IF Unwrap(r.val).variant = "IgnoredCustom"
                        /\ IsNone(container_custom)
                THEN Append(errors,
                            MissingCustomHook(Unwrap(ast_field.ident),
                                              identifier))
                ELSE errors) :
            r \in {ParsedField_from_field(ast_field)}})

\* mutation of FromAstFields: a field's errors are put in front of the
\* errors collected so far
RECURSIVE FromAstFields_front(_, _, _, _, _)
FromAstFields_front(named, identifier, container_custom, fields, errors) ==
    IF named = <<>> THEN [fields |-> fields, errors |-> errors]
    ELSE
    LET ast_field == Head(named)
    IN The({FromAstFields_front(Tail(named), identifier, container_custom,
                IF IsOk(r) /\ Unwrap(r.val).variant = "Active"
                THEN Append(fields, Unwrap(r.val))
                ELSE fields,
                IF ~IsOk(r) THEN r.errs \o errors
                ELSE IF Unwrap(r.val).variant = "IgnoredCustom"
                        /\ IsNone(container_custom)
                THEN <<MissingCustomHook(Unwrap(ast_field.ident),
                                         identifier)>> \o errors
                ELSE errors) :
            r \in {ParsedField_from_field(ast_field)}})

\* the `for ast_field in ...` loop of CacheDiffContainer::from_ast
RECURSIVE FromAstFields(_, _, _, _, _)
FromAstFields(named, identifier, container_custom, fields, errors) ==
    IF named = <<>> THEN [fields |-> fields, errors |-> errors]
    ELSE
    LET ast_field == Head(named)
    IN The({FromAstFields(Tail(named), identifier, container_custom,
                IF IsOk(r) /\ Unwrap(r.val).variant = "Active"
                THEN Append(fields, Unwrap(r.val))
                ELSE fields,
                IF ~IsOk(r) THEN errors \o r.errs
                ELSE IF Unwrap(r.val).variant = "IgnoredCustom"
                        /\ IsNone(container_custom)
                THEN Append(errors,
                            MissingCustomHook(Unwrap(ast_field.ident),
                                              identifier))
                ELSE errors) :
            r \in {ParsedField_from_field(ast_field)}})

\* CacheDiffContainer::from_ast
from_ast(in) ==
    The({LET identifier == in.ident
             container_custom ==
                 IF IsOk(l)
                 THEN LET c == Lookup(Unwrap(l.val), "custom")
                      IN IF IsSome(c) THEN Some(Unwrap(c).inner) ELSE None
                 ELSE None
             errors0 == IF IsOk(l) THEN <<>> ELSE l.errs
         IN IF in.shape # "named" THEN Panic
            ELSE The({IF r.errors # <<>> THEN Err(r.errors)
                      ELSE IF r.fields = <<>>
                      THEN Err(<<NoComparableFields(identifier)>>)
                      ELSE Ok([identifier |-> identifier,
                               custom |-> container_custom,
                               fields |-> r.fields]) :
                      r \in {FromAstFields(in.fields, identifier,
                                           container_custom, <<>>,
                                           errors0)}}) :
         l \in {attribute_lookup(in.attrs,
                                 "cache_diff_container::ParsedAttribute")}})

----------------------------------------------------------------------------
(* Container resolver: parse_container.rs *)

\* ParseAttribute::from_derive: the parsed attributes, in order, unchecked
\* for duplicates
from_derive(in) ==
    The({IF ~IsOk(r) THEN r
         ELSE Ok([i \in DOMAIN Unwrap(r.val) |-> Unwrap(r.val)[i].attr]) :
         r \in {parse_attrs(in.attrs, "parse_container::ParseAttribute")}})

\* .map(ParseField::from_field).collect::<Result<Vec<_>, _>>():
\* the first failing field ends the collection with its error
CollectFields(named) ==
    The({IF \E i \in DOMAIN rs : ~IsOk(rs[i])
         THEN Err(rs[FirstBad(rs)].errs)
         ELSE Ok([i \in DOMAIN rs |-> Unwrap(rs[i].val)]) :
         rs \in {[i \in DOMAIN named |-> ParseField_from_field(named[i])]}})

\* mutation of FindIgnoreCustom: nothing is found
FindIgnoreCustom_none(fields) == None

\* .iter().find(|field| matches!(field.ignore.as_deref(), Some("custom")))
FindIgnoreCustom(fields) ==
    LET hits == {i \in DOMAIN fields : fields[i].ignore = Some(S_custom)}
    IN IF hits = {} THEN None
       ELSE Some(fields[CHOOSE i \in hits : \A j \in hits : i <= j])

\* mutation of AnyNotIgnored: always true
AnyNotIgnored_always(fields) == TRUE

\* fields.iter().any(|f| f.ignore.is_none())
AnyNotIgnored(fields) == \E i \in DOMAIN fields : IsNone(fields[i].ignore)

\* ParseContainer::from_derive_input
from_derive_input(in) ==
    The({IF ~IsOk(attributes) THEN attributes
         ELSE
         LET ident == in.ident
             as == Unwrap(attributes.val)
             custom == IF as = <<>> THEN None ELSE Some(as[Len(as)].inner)
         IN IF in.shape # "named" THEN Err(<<UnsupportedShape(ident)>>)
            ELSE
            The({IF ~IsOk(fs) THEN fs
                 ELSE
                 LET fields == Unwrap(fs.val)
                     hit == FindIgnoreCustom(fields)
                 IN IF IsSome(hit) /\ IsNone(custom)
                    THEN Err(<<MissingCustomHook(Unwrap(hit).ident, ident)>>)
                    ELSE IF AnyNotIgnored(fields)
                    THEN Ok([ident |-> ident, fields |-> fields,
                             custom |-> custom])
                    ELSE Err(<<NoComparableFields(ident)>>) :
                 fs \in {CollectFields(in.fields)}}) :
         attributes \in {from_derive(in)}})

----------------------------------------------------------------------------
(* Code generation: lib.rs *)

Comparison(ident, name, display) ==
    [ident |-> ident, name |-> name, display |-> display]

\* create_cache_diff: the emitted impl, as the custom call it contains (if
\* any) and its comparisons
create_cache_diff(item) ==
    The({IF ~IsOk(r) THEN r
         ELSE LET c == Unwrap(r.val)
              IN Ok([struct_identifier |-> c.identifier,
                     custom_diff |-> c.custom,
                     comparisons |->
                         [i \in DOMAIN c.fields |->
                             Comparison(c.fields[i].field_identifier,
                                        c.fields[i].name,
                                        c.fields[i].display_fn)]]) :
         r \in {from_ast(item)}})

\* mutation of NotIgnored: the kept fields are collected in reverse
RECURSIVE NotIgnored_reversed(_)
NotIgnored_reversed(fields) ==
    IF fields = <<>> THEN <<>>
    ELSE NotIgnored_reversed(Tail(fields))
         \o (IF IsNone(Head(fields).ignore) THEN <<Head(fields)>> ELSE <<>>)

\* mutation of NotIgnored: the filter is dropped
NotIgnored_unfiltered(fields) == fields

\* container.fields.iter().filter(|f| !f.ignore): the fields whose ignore
\* is not set
RECURSIVE NotIgnored(_)
NotIgnored(fields) ==
    IF fields = <<>> THEN <<>>
    ELSE (IF IsNone(Head(fields).ignore) THEN <<Head(fields)>> ELSE <<>>)
         \o NotIgnored(Tail(fields))

\* create_cache_diff_too: the emitted impl holds comparisons only
create_cache_diff_too(item) ==
    The({IF ~IsOk(r) THEN r
         ELSE LET c == Unwrap(r.val)
                  fs == NotIgnored(c.fields)
              IN Ok([struct_identifier |-> c.ident,
                     custom_diff |-> None,
                     comparisons |->
                         [i \in DOMAIN fs |->
                             Comparison(fs[i].ident, fs[i].name,
                                        fs[i].display)]]) :
         r \in {from_derive_input(item)}})

----------------------------------------------------------------------------
(* The emitted diff procedure and the functions it calls *)

S_open == <<" ", "(">>
S_to == <<" ", "t", "o", " ">>
S_close == <<")">>
\* the backtick character (U+0060) is written "BACKTICK"
S_tick == <<"BACKTICK">>
S_custom_prefix == <<"c", "u", "s", "t", "o", "m", " ">>
S_totally == <<"T", "o", "t", "a", "l", "l", "y", " ", "c", "u", "s", "t", "o", "m", " ", "o", "l", "d", ":", " ">>
S_now == <<" ", "n", "o", "w", ":", " ">>

\* CacheDiff::fmt_value, cfg(not(feature = "bullet_stream"))
fmt_value(value) == S_tick \o value \o S_tick

\* std::path::Path::display: every unit that is not valid UTF-8 is shown as
\* U+FFFD
PathDisplayFn(p) == [i \in DOMAIN p |-> IF p[i] = "xFF" THEN "uFFFD" ELSE p[i]]

\* my_function of the crate documentation (my_display in usage/src/main.rs)
my_function(v) == S_custom_prefix \o v

\* the call #display_fn(&value)
CallDisplay(display_fn, v) ==
    IF display_fn = PathDisplay THEN PathDisplayFn(v)
    ELSE IF display_fn = Identity THEN v
    ELSE my_function(v)

\* usage/src/main.rs, diff_fn: the hook of CustomDiffFn reads its first field
diff_fn(item, o, n) ==
    LET name == Unwrap(item.fields[1].ident)
    IN <<S_totally \o o[name] \o S_now \o n[name]>>

\* the call #custom_fn(old, self)
CallCustom(item, custom_fn, o, n) == diff_fn(item, o, n)

\* mutation of RunComparison: the test is == instead of !=
RunComparison_equal(c, self, o) ==
    IF self[c.ident] = o[c.ident]
    THEN <<c.name \o S_open \o fmt_value(CallDisplay(c.display, o[c.ident]))
                  \o S_to \o fmt_value(CallDisplay(c.display, self[c.ident]))
                  \o S_close>>
    ELSE <<>>

\* mutation of RunComparison: the old value is printed without the display
\* function
RunComparison_old_raw(c, self, o) ==
    IF self[c.ident] # o[c.ident]
    THEN <<c.name \o S_open \o fmt_value(o[c.ident])
                  \o S_to \o fmt_value(CallDisplay(c.display, self[c.ident]))
                  \o S_close>>
    ELSE <<>>

\* mutation of RunComparison: old and new are exchanged
RunComparison_swapped(c, self, o) ==
    IF self[c.ident] # o[c.ident]
    THEN <<c.name \o S_open \o fmt_value(CallDisplay(c.display, self[c.ident]))
                  \o S_to \o fmt_value(CallDisplay(c.display, o[c.ident]))
                  \o S_close>>
    ELSE <<>>

\* one emitted comparison: if self.f != old.f { differences.push(format!(..)) }
RunComparison(c, self, o) ==
    IF self[c.ident] # o[c.ident]
    THEN <<c.name \o S_open \o fmt_value(CallDisplay(c.display, o[c.ident]))
                  \o S_to \o fmt_value(CallDisplay(c.display, self[c.ident]))
                  \o S_close>>
    ELSE <<>>

\* mutation of RunComparisons: only the first comparison is run
RunComparisons_head_only(cs, self, o) ==
    IF cs = <<>> THEN <<>> ELSE RunComparison(Head(cs), self, o)

\* #(#comparisons)*: the emitted comparisons, one after the other
RECURSIVE RunComparisons(_, _, _)
RunComparisons(cs, self, o) ==
    IF cs = <<>> THEN <<>>
    ELSE RunComparison(Head(cs), self, o) \o RunComparisons(Tail(cs), self, o)

\* the #custom_diff part of an emitted diff
CustomPart(item, im, self, o) ==
    IF IsSome(im.custom_diff)
    THEN CallCustom(item, Unwrap(im.custom_diff), o, self)
    ELSE <<>>

\* the impl inside Some(Ok(impl))
ImplOf(gen) == Unwrap(Unwrap(gen).val)

\* fn diff(&self, old: &Self) -> Vec<String> of an emitted impl
diff(item, im, self, o) ==
    CustomPart(item, im, self, o) \o RunComparisons(im.comparisons, self, o)

----------------------------------------------------------------------------
(* The explored inputs *)

SeqsUpTo(S, n) == UNION {[1..k -> S] : k \in 0..n}

\* an item's attributes: its annotation entries in one #[cache_diff(...)]
AttrsOf(es) ==
    IF es = <<>> THEN <<>> ELSE <<[ns |-> NAMESPACE, entries |-> es]>>

Ty(kind, segs, args) == [kind |-> kind, segs |-> segs, args |-> args]
T_String == Ty("path", <<"String">>, FALSE)
T_PathBuf == Ty("path", <<"PathBuf">>, FALSE)
T_StdPathBuf == Ty("path", <<"std", "path", "PathBuf">>, FALSE)
T_OptionPathBuf == Ty("path", <<"Option">>, TRUE)
T_GenericPathBuf == Ty("path", <<"PathBuf">>, TRUE)
T_Tuple == Ty("tuple", <<>>, FALSE)

FieldTypes ==
    {T_String, T_PathBuf, T_StdPathBuf, T_OptionPathBuf, T_GenericPathBuf,
     T_Tuple}

S_label == <<"R", "_">>
F_my_function == <<"my_function">>
F_diff_fn == <<"diff_fn">>

E_rename == Entry("rename", "str", S_label)
E_display == Entry("display", "path", F_my_function)
E_ignore == Entry("ignore", "none", <<>>)
E_ignore_custom == Entry("ignore", "str", S_custom)
E_ignore_reason == Entry("ignore", "str", S_reasons)
E_unknown == Entry("unknown", "none", <<>>)
E_field_custom == Entry("custom", "path", F_diff_fn)
E_rename_bare == Entry("rename", "none", <<>>)

FieldEntries ==
    {E_rename, E_display, E_ignore, E_ignore_custom, E_ignore_reason,
     E_unknown, E_field_custom, E_rename_bare}

\* field identifiers over a letter and the underscore (`_` alone is not an
\* identifier)
FieldNames ==
    UNION {[1..k -> {"a", "_"}] : k \in 1..MaxNameLen} \ {<<"_">>}

Field(ident, ty, es) == [ident |-> ident, ty |-> ty, attrs |-> AttrsOf(es)]

\* the identifier of the i-th declared field: v, _v, __v, ...
FieldIdent(i) == [j \in 1..i |-> IF j = i THEN "v" ELSE "_"]

DeriveInput(ident, shape, es, fields) ==
    [ident |-> ident, shape |-> shape, attrs |-> AttrsOf(es),
     fields |-> fields]

NoInput == DeriveInput("", "unit", <<>>, <<>>)
NoField == Field(None, T_String, <<>>)

\* the callers of diff: threads holding &self and &old
Callers == {"c1", "c2"}
IdleCaller ==
    [pc |-> "idle", gen |-> "", k |-> 0, differences |-> <<>>, hook |-> <<>>]
NoCallers == [c \in Callers |-> IdleCaller]

\* the declarations whose emitted diff is run
DiffFieldShapes ==
    {[ty |-> T_String, es |-> <<>>],
     [ty |-> T_PathBuf, es |-> <<>>],
     [ty |-> T_String, es |-> <<E_rename, E_display>>],
     [ty |-> T_String, es |-> <<E_ignore>>],
     [ty |-> T_String, es |-> <<E_ignore_custom>>]}

E_custom == Entry("custom", "path", F_diff_fn)

\* a named struct whose i-th field has the i-th of the given shapes; the
\* hook diff_fn reads the first field as a String
DiffInput(es, sh) ==
    DeriveInput("Metadata", "named", es,
                [i \in DOMAIN sh |-> Field(Some(FieldIdent(i)), sh[i].ty,
                                           sh[i].es)])

StringValues == {<<"3">>, <<"4">>}
PathValues == {<<"/", "t">>, <<"/", "xFF">>}
ValuesOf(ty) == IF is_pathbuf(ty) THEN PathValues ELSE StringValues

\* the instances of a declared record type
Instances(item) ==
    LET idents == {Unwrap(item.fields[i].ident) : i \in DOMAIN item.fields}
        TyOf(id) == (CHOOSE i \in DOMAIN item.fields :
                        Unwrap(item.fields[i].ident) = id)
    IN {f \in [idents -> StringValues \cup PathValues] :
           \A id \in idents : f[id] \in ValuesOf(item.fields[TyOf(id)].ty)}

----------------------------------------------------------------------------
(* Deriving CacheDiff for a declaration and calling the emitted diff *)

Init ==
    /\ \E es \in {<<>>, <<E_custom>>}, n \in 0..MaxFields :
           \E sh \in {x \in [1..n -> DiffFieldShapes] :
                         n = 0 \/ x[1].ty = T_String} :
               input = DiffInput(es, sh)
    /\ now \in Instances(input)
    /\ old \in Instances(input)
    /\ impl = None /\ implToo = None /\ out = None /\ outToo = None
    /\ back = None /\ backToo = None
    /\ container = None /\ pcontainer = None
    /\ field = NoField /\ parsed = None /\ parse = None
    /\ itemAttrs = <<>> /\ attrType = "" /\ lookupResult = None
    /\ callers = NoCallers

\* create_cache_diff(item)
CreateCacheDiff ==
    /\ impl = None
    /\ impl' = Some(create_cache_diff(input))
    /\ UNCHANGED <<back, backToo, itemAttrs, attrType, lookupResult, callers,
                   field, parsed, parse, input, container, pcontainer,
                   implToo, now, old, out, outToo>>

\* the proc-macro entry point cache_diff(item)
CacheDiff ==
    /\ implToo = None
    /\ implToo' = Some(create_cache_diff_too(input))
    /\ UNCHANGED <<back, backToo, itemAttrs, attrType, lookupResult, callers,
                   field, parsed, parse, input, container, pcontainer,
                   impl, now, old, out, outToo>>

\* now.diff(&old) with the impl emitted by create_cache_diff
Diff ==
    /\ IsSome(impl) /\ IsOk(Unwrap(impl)) /\ out = None
    /\ out' = Some(diff(input, Unwrap(Unwrap(impl).val), now, old))
    /\ UNCHANGED <<back, backToo, itemAttrs, attrType, lookupResult, callers,
                   field, parsed, parse, input, container, pcontainer,
                   impl, implToo, now, old, outToo>>

\* now.diff(&old) with the impl emitted by the entry point
DiffToo ==
    /\ IsSome(implToo) /\ IsOk(Unwrap(implToo)) /\ outToo = None
    /\ outToo' = Some(diff(input, Unwrap(Unwrap(implToo).val), now, old))
    /\ UNCHANGED <<back, backToo, itemAttrs, attrType, lookupResult, callers,
                   field, parsed, parse, input, container, pcontainer,
                   impl, implToo, now, old, out>>

\* the reverse call old.diff(&now) with the impl emitted by create_cache_diff
DiffBack ==
    /\ IsSome(impl) /\ IsOk(Unwrap(impl)) /\ back = None
    /\ back' = Some(diff(input, Unwrap(Unwrap(impl).val), old, now))
    /\ UNCHANGED <<backToo, itemAttrs, attrType, lookupResult, callers,
                   field, parsed, parse, input, container, pcontainer,
                   impl, implToo, now, old, out, outToo>>

\* the reverse call old.diff(&now) with the impl emitted by the entry point
DiffTooBack ==
    /\ IsSome(implToo) /\ IsOk(Unwrap(implToo)) /\ backToo = None
    /\ backToo' = Some(diff(input, Unwrap(Unwrap(implToo).val), old, now))
    /\ UNCHANGED <<back, itemAttrs, attrType, lookupResult, callers,
                   field, parsed, parse, input, container, pcontainer,
                   impl, implToo, now, old, out, outToo>>

Next ==
    \/ CreateCacheDiff \/ CacheDiff
    \/ Diff \/ DiffToo
    \/ DiffBack \/ DiffTooBack

Spec == Init /\ [][Next]_vars

----------------------------------------------------------------------------
(* Callers running the emitted diff statement by statement *)

\* the declarations whose emitted diff the callers run
CallFieldShapes ==
    {[ty |-> T_String, es |-> <<>>],
     [ty |-> T_PathBuf, es |-> <<>>],
     [ty |-> T_String, es |-> <<E_ignore_custom>>]}

\* the impl the derive `gen` emitted
Generated(gen) == IF gen = "create_cache_diff" THEN impl ELSE implToo

\* the invocations of the custom function that #custom_diff makes:
\* let custom_diff = #custom_fn(old, self);
HookCalls(im, self, o) ==
    IF IsSome(im.custom_diff)
    THEN <<[fn |-> Unwrap(im.custom_diff), first |-> o, second |-> self]>>
    ELSE <<>>

\* mutation of Extend: the entries replace the vector
Extend_overwrite(differences, entries) == entries

\* differences.push(..) for each of the entries
Extend(differences, entries) == differences \o entries

InitCalls ==
    /\ \E es \in {<<>>, <<E_custom>>}, n \in 0..MaxFields :
           \E sh \in {x \in [1..n -> CallFieldShapes] :
                         n = 0 \/ x[1].ty = T_String} :
               input = DiffInput(es, sh)
    /\ now \in Instances(input)
    /\ old \in Instances(input)
    /\ impl = Some(create_cache_diff(input))
    /\ implToo = Some(create_cache_diff_too(input))
    /\ callers = NoCallers
    /\ out = None /\ outToo = None
    /\ back = None /\ backToo = None
    /\ container = None /\ pcontainer = None
    /\ field = NoField /\ parsed = None /\ parse = None
    /\ itemAttrs = <<>> /\ attrType = "" /\ lookupResult = None

\* a caller enters diff: let mut differences = Vec::new(); #custom_diff
Begin(c, gen) ==
    /\ callers[c].pc = "idle"
    /\ IsOk(Unwrap(Generated(gen)))
    /\ callers' =
           [callers EXCEPT ![c] =
               [pc |-> "run", gen |-> gen, k |-> 1,
                differences |->
                    Extend(<<>>, CustomPart(input, ImplOf(Generated(gen)),
                                            now, old)),
                hook |-> HookCalls(ImplOf(Generated(gen)), now, old)]]
    /\ UNCHANGED <<back, backToo, itemAttrs, attrType, lookupResult,
                   field, parsed, parse, input, container, pcontainer,
                   impl, implToo, now, old, out, outToo>>

\* a caller runs its next comparison
Compare(c) ==
    /\ callers[c].pc = "run"
    /\ callers[c].k <= Len(ImplOf(Generated(callers[c].gen)).comparisons)
    /\ callers' =
           [callers EXCEPT
               ![c].differences =
                   Extend(@, RunComparison(
                                 ImplOf(Generated(callers[c].gen))
                                     .comparisons[callers[c].k],
                                 now, old)),
               ![c].k = @ + 1]
    /\ UNCHANGED <<back, backToo, itemAttrs, attrType, lookupResult,
                   field, parsed, parse, input, container, pcontainer,
                   impl, implToo, now, old, out, outToo>>

\* a caller returns `differences`
Return(c) ==
    /\ callers[c].pc = "run"
    /\ callers[c].k > Len(ImplOf(Generated(callers[c].gen)).comparisons)
    /\ callers' = [callers EXCEPT ![c].pc = "done"]
    /\ UNCHANGED <<back, backToo, itemAttrs, attrType, lookupResult,
                   field, parsed, parse, input, container, pcontainer,
                   impl, implToo, now, old, out, outToo>>

NextCalls ==
    \E c \in Callers :
        \/ \E gen \in {"create_cache_diff", "cache_diff"} : Begin(c, gen)
        \/ Compare(c)
        \/ Return(c)

SpecCalls == InitCalls /\ [][NextCalls]_vars

----------------------------------------------------------------------------
(* Resolving one field *)

InitField ==
    /\ \/ \E n \in FieldNames, ty \in FieldTypes, k \in 0..MaxAttrs :
              \E es \in [1..k -> FieldEntries] :
                  field = Field(Some(n), ty, es)
       \/ field = NoField
    /\ parsed = None /\ parse = None
    /\ itemAttrs = <<>> /\ attrType = "" /\ lookupResult = None
    /\ callers = NoCallers
    /\ input = NoInput /\ now = <<>> /\ old = <<>>
    /\ impl = None /\ implToo = None /\ out = None /\ outToo = None
    /\ back = None /\ backToo = None
    /\ container = None /\ pcontainer = None

\* ParsedField::from_field(&field)
ParsedFieldFromField ==
    /\ parsed = None
    /\ parsed' = Some(ParsedField_from_field(field))
    /\ UNCHANGED <<back, backToo, itemAttrs, attrType, lookupResult, callers,
                   field, parse, input, container, pcontainer,
                   impl, implToo, now, old, out, outToo>>

\* ParseField::from_field(&field)
ParseFieldFromField ==
    /\ parse = None
    /\ parse' = Some(ParseField_from_field(field))
    /\ UNCHANGED <<back, backToo, itemAttrs, attrType, lookupResult, callers,
                   field, parsed, input, container, pcontainer,
                   impl, implToo, now, old, out, outToo>>

NextField == ParsedFieldFromField \/ ParseFieldFromField

SpecField == InitField /\ [][NextField]_vars

----------------------------------------------------------------------------
(* Resolving a declaration *)

F_other_fn == <<"other_fn">>
E_custom_other == Entry("custom", "path", F_other_fn)
E_custom_bare == Entry("custom", "none", <<>>)

ContainerEntries == {E_custom, E_custom_other, E_unknown, E_custom_bare}

\* the annotations written on the fields of the resolved declarations
ResolveFieldAnnotations ==
    {<<>>, <<E_ignore>>, <<E_ignore_custom>>, <<E_unknown>>,
     <<E_ignore, E_ignore_custom>>, <<E_ignore_custom, E_unknown>>}

\* a named struct of String fields with the given annotations
ResolveInput(es, fs) ==
    DeriveInput("Metadata", "named", es,
                [i \in DOMAIN fs |-> Field(Some(FieldIdent(i)), T_String,
                                           fs[i])])

InitResolve ==
    /\ \E k \in 0..MaxTypeAttrs :
           \E es \in [1..k -> ContainerEntries] :
               \/ \E n \in 0..MaxFields :
                      \E fs \in [1..n -> ResolveFieldAnnotations] :
                          input = ResolveInput(es, fs)
               \/ \E shape \in {"unnamed", "unit", "enum"} :
                      input = DeriveInput("Metadata", shape, es, <<>>)
    /\ container = None /\ pcontainer = None
    /\ now = <<>> /\ old = <<>>
    /\ impl = None /\ implToo = None /\ out = None /\ outToo = None
    /\ back = None /\ backToo = None
    /\ field = NoField /\ parsed = None /\ parse = None
    /\ itemAttrs = <<>> /\ attrType = "" /\ lookupResult = None
    /\ callers = NoCallers

\* CacheDiffContainer::from_ast(&input)
FromAst ==
    /\ container = None
    /\ container' = Some(from_ast(input))
    /\ UNCHANGED <<back, backToo, itemAttrs, attrType, lookupResult, callers,
                   field, parsed, parse, input, pcontainer,
                   impl, implToo, now, old, out, outToo>>

\* ParseContainer::from_derive_input(&input)
FromDeriveInput ==
    /\ pcontainer = None
    /\ pcontainer' = Some(from_derive_input(input))
    /\ UNCHANGED <<back, backToo, itemAttrs, attrType, lookupResult, callers,
                   field, parsed, parse, input, container,
                   impl, implToo, now, old, out, outToo>>

NextResolve == FromAst \/ FromDeriveInput

SpecResolve == InitResolve /\ [][NextResolve]_vars

----------------------------------------------------------------------------
(* Looking up the annotations of one item *)

FieldAttrTypes ==
    {"cache_diff_field::ParsedAttribute", "parse_field::ParseAttribute"}
ContainerAttrTypes ==
    {"cache_diff_container::ParsedAttribute",
     "parse_container::ParseAttribute"}

\* the annotation entries written on an item of the scope of T
ScopeEntries(T) ==
    IF T \in FieldAttrTypes THEN FieldEntries ELSE ContainerEntries

\* an attribute of another namespace: #[serde(deny_unknown_fields)]
ForeignAttr ==
    [ns |-> "serde",
     entries |-> <<Entry("deny_unknown_fields", "none", <<>>)>>]

\* the entries written as two #[cache_diff(...)] blocks, the first holding p
\* of them (one block when p = 0), with or without a foreign attribute
\* between them
AttrsSplit(es, p, foreign) ==
    AttrsOf(SubSeq(es, 1, p))
        \o (IF foreign THEN <<ForeignAttr>> ELSE <<>>)
        \o AttrsOf(SubSeq(es, p + 1, Len(es)))

InitAttrs ==
    /\ \E T \in FieldAttrTypes \cup ContainerAttrTypes, k \in 0..MaxEntries :
           \E es \in [1..k -> ScopeEntries(T)], p \in 0..k,
              foreign \in BOOLEAN :
               /\ itemAttrs = AttrsSplit(es, p, foreign)
               /\ attrType = T
    /\ lookupResult = None /\ callers = NoCallers
    /\ field = NoField /\ parsed = None /\ parse = None
    /\ input = NoInput /\ now = <<>> /\ old = <<>>
    /\ impl = None /\ implToo = None /\ out = None /\ outToo = None
    /\ back = None /\ backToo = None
    /\ container = None /\ pcontainer = None

\* attribute_lookup::<T>(&attrs)
AttributeLookup ==
    /\ lookupResult = None
    /\ lookupResult' = Some(attribute_lookup(itemAttrs, attrType))
    /\ UNCHANGED <<back, backToo,
                   callers, itemAttrs, attrType, field, parsed, parse, input,
                   container, pcontainer, impl, implToo, now, old, out,
                   outToo>>

NextAttrs == AttributeLookup

SpecAttrs == InitAttrs /\ [][NextAttrs]_vars

----------------------------------------------------------------------------
(* What a declaration says, read off its annotations *)

DeclEntries(f) == NamespaceEntries(f.attrs)
HasKey(f, k) == \E i \in DOMAIN DeclEntries(f) : DeclEntries(f)[i].key = k
ValueOfKey(f, k) ==
    DeclEntries(f)[CHOOSE i \in DOMAIN DeclEntries(f) :
                       DeclEntries(f)[i].key = k].val
DeclIgnored(f) == HasKey(f, "ignore")
DeclCustom(item) == HasKey(item, "custom")

DeclLabel(f) ==
    IF HasKey(f, "rename") THEN ValueOfKey(f, "rename")
    ELSE [i \in DOMAIN Unwrap(f.ident) |->
             IF Unwrap(f.ident)[i] = "_" THEN " " ELSE Unwrap(f.ident)[i]]

PathBufTypes == {T_PathBuf, T_StdPathBuf}

DeclFormat(f, v) ==
    IF HasKey(f, "display") THEN <<"c", "u", "s", "t", "o", "m", " ">> \o v
    ELSE IF f.ty \in PathBufTypes
    THEN [i \in DOMAIN v |-> IF v[i] = "xFF" THEN "uFFFD" ELSE v[i]]
    ELSE v

Wrapped(v) == <<"BACKTICK">> \o v \o <<"BACKTICK">>

\* "{label} ({old} to {new})"
DeclEntry(f, cur, prev) ==
    DeclLabel(f) \o <<" ", "(">>
        \o Wrapped(DeclFormat(f, prev[Unwrap(f.ident)]))
        \o <<" ", "t", "o", " ">>
        \o Wrapped(DeclFormat(f, cur[Unwrap(f.ident)]))
        \o <<")">>

Differs(f, cur, prev) == cur[Unwrap(f.ident)] # prev[Unwrap(f.ident)]

\* the declared fields that are not ignored and whose values differ, in
\* declaration order
RECURSIVE DifferingActive(_, _, _)
DifferingActive(fs, cur, prev) ==
    IF fs = <<>> THEN <<>>
    ELSE (IF ~DeclIgnored(Head(fs)) /\ Differs(Head(fs), cur, prev)
          THEN <<Head(fs)>> ELSE <<>>)
         \o DifferingActive(Tail(fs), cur, prev)

ExpectedPerField(item, cur, prev) ==
    LET fs == DifferingActive(item.fields, cur, prev)
    IN [i \in DOMAIN fs |-> DeclEntry(fs[i], cur, prev)]

\* what the declared hook returns for (old, now)
HookOutput == diff_fn(input, old, now)

\* the label of a per-field entry: the text before " ("
LabelOf(entry) ==
    LET p == CHOOSE i \in DOMAIN entry :
                 entry[i] = "(" /\ \A j \in 1..(i - 1) : entry[j] # "("
    IN SubSeq(entry, 1, p - 2)

\* the part of a diff result after the entries of the emitted custom call
PerFieldEntries(im, result) ==
    LET h == Len(CustomPart(input, im, now, old))
    IN SubSeq(result, h + 1, Len(result))

----------------------------------------------------------------------------
(* Claims about the emitted diff (specification Spec) *)

\* C1: for a type declared with `custom = f`, the diff emitted by
\* create_cache_diff and the diff emitted by the entry point both return the
\* entries of f(old, now), in f's order, followed by the per-field entries.
C1_CustomEntriesFirst ==
    DeclCustom(input) =>
        /\ IsSome(out) =>
               Unwrap(out) = HookOutput \o ExpectedPerField(input, now, old)
        /\ IsSome(outToo) =>
               Unwrap(outToo) = HookOutput \o ExpectedPerField(input, now, old)

\* C2: the per-field entries of a diff result list the differing Active
\* fields in declaration order (read off the labels of the entries).
C2_DeclarationOrder ==
    LET expected == DifferingActive(input.fields, now, old)
        Ordered(im, result) ==
            LET es == PerFieldEntries(im, result)
            IN /\ Len(es) = Len(expected)
               /\ \A k \in DOMAIN es : LabelOf(es[k]) = DeclLabel(expected[k])
    IN /\ IsSome(out) => Ordered(ImplOf(impl), Unwrap(out))
       /\ IsSome(outToo) => Ordered(ImplOf(implToo), Unwrap(outToo))

C2_Witness ==
    /\ IsSome(out) /\ IsSome(outToo)
    /\ Len(DifferingActive(input.fields, now, old)) >= 2
    /\ DeclLabel(input.fields[1]) # DeclLabel(input.fields[2])

\* C3 as stated: identical instances of a type with an Active field give an
\* empty diff, also when the type declares a custom hook.
C3_IdenticalGivesEmpty ==
    now = old =>
        /\ IsSome(out) => Unwrap(out) = <<>>
        /\ IsSome(outToo) => Unwrap(outToo) = <<>>

\* C3 (amended): for identical instances the diff holds no per-field entry:
\* it is empty when the type declares no custom hook, and otherwise the diff
\* emitted by create_cache_diff is exactly what the hook returns.
C3_IdenticalGivesNoFieldEntry ==
    now = old =>
        /\ IsSome(out) =>
               Unwrap(out) = IF DeclCustom(input) THEN HookOutput ELSE <<>>
        /\ IsSome(outToo) =>
               /\ ~DeclCustom(input) => Unwrap(outToo) = <<>>
               /\ \A k \in DOMAIN Unwrap(outToo) :
                      \E j \in DOMAIN HookOutput :
                          Unwrap(outToo)[k] = HookOutput[j]

C3_Witness ==
    /\ now = old /\ DeclCustom(input)
    /\ IsSome(out) /\ Unwrap(out) # <<>> /\ IsSome(outToo)

\* C4: when two instances differ only in fields marked `ignore` (with any
\* reason), the diff holds no per-field entry.
C4_IgnoredNeverReported ==
    (\A i \in DOMAIN input.fields :
        Differs(input.fields[i], now, old) => DeclIgnored(input.fields[i]))
    =>
        /\ IsSome(out) => PerFieldEntries(ImplOf(impl), Unwrap(out)) = <<>>
        /\ IsSome(outToo) =>
               PerFieldEntries(ImplOf(implToo), Unwrap(outToo)) = <<>>

C4_Witness ==
    /\ IsSome(out) /\ IsSome(outToo)
    /\ \E i \in DOMAIN input.fields :
           /\ Differs(input.fields[i], now, old)
           /\ HasKey(input.fields[i], "ignore")
           /\ ValueOfKey(input.fields[i], "ignore") = S_custom
    /\ \A i \in DOMAIN input.fields :
           Differs(input.fields[i], now, old) => DeclIgnored(input.fields[i])

\* C5: every Active field whose value differs contributes the entry
\* "{label} ({old} to {new})", old being the wrapped format_ref of the
\* argument's value and new that of the receiver's value.
C5_EntryFormat ==
    \A i \in DOMAIN input.fields :
        LET f == input.fields[i]
            Reported(result) ==
                \E k \in DOMAIN result : result[k] = DeclEntry(f, now, old)
        IN (~DeclIgnored(f) /\ Differs(f, now, old)) =>
               /\ IsSome(out) => Reported(Unwrap(out))
               /\ IsSome(outToo) => Reported(Unwrap(outToo))

C5_Witness ==
    /\ IsSome(out) /\ IsSome(outToo)
    /\ \E i \in DOMAIN input.fields :
           /\ HasKey(input.fields[i], "display")
           /\ Differs(input.fields[i], now, old)
    /\ \E i \in DOMAIN input.fields :
           /\ input.fields[i].ty = T_PathBuf
           /\ Differs(input.fields[i], now, old)

----------------------------------------------------------------------------
(* Claims about resolving one field (specification SpecField) *)

\* the descriptor inside Some(Ok(descriptor))
Resolved(r) == Unwrap(Unwrap(r).val)

DeclFormatRef(f) ==
    IF HasKey(f, "display") THEN ValueOfKey(f, "display")
    ELSE IF f.ty \in PathBufTypes THEN PathDisplay
    ELSE Identity

\* C6: a field without `ignore` that resolves gets as label the value of
\* `rename` when present, and otherwise its name with every underscore
\* replaced by one space; in ParsedField::from_field and in
\* ParseField::from_field.
C6_Label ==
    ~DeclIgnored(field) =>
        /\ (IsSome(parsed) /\ IsOk(Unwrap(parsed))) =>
               /\ Resolved(parsed).variant = "Active"
               /\ Resolved(parsed).name = DeclLabel(field)
        /\ (IsSome(parse) /\ IsOk(Unwrap(parse))) =>
               /\ IsNone(Resolved(parse).ignore)
               /\ Resolved(parse).name = DeclLabel(field)

C6_Witness ==
    /\ field.ident = Some(<<"_", "_">>) /\ ~HasKey(field, "rename")
    /\ IsSome(parsed) /\ IsOk(Unwrap(parsed))
    /\ Resolved(parsed).name = <<" ", " ">>
    /\ IsSome(parse) /\ IsOk(Unwrap(parse))
    /\ Resolved(parse).name = <<" ", " ">>

\* C7: a field without `ignore` that resolves gets as format_ref the
\* function of `display` when present (also for a PathBuf field), otherwise
\* the path display conversion when its type is PathBuf, and the identity
\* for every other type; in both field resolvers.
C7_FormatRef ==
    ~DeclIgnored(field) =>
        /\ (IsSome(parsed) /\ IsOk(Unwrap(parsed))) =>
               Resolved(parsed).display_fn = DeclFormatRef(field)
        /\ (IsSome(parse) /\ IsOk(Unwrap(parse))) =>
               Resolved(parse).display = DeclFormatRef(field)

C7_Witness ==
    /\ field.ty = T_PathBuf /\ HasKey(field, "display")
    /\ IsSome(parsed) /\ IsOk(Unwrap(parsed))
    /\ Resolved(parsed).display_fn = F_my_function
    /\ IsSome(parse) /\ IsOk(Unwrap(parse))
    /\ Resolved(parse).display = F_my_function

\* a field whose annotation is one valid `ignore` and one valid `rename` or
\* `display`, in either order
IgnoreEntries == {E_ignore, E_ignore_custom, E_ignore_reason}
DeclConflicting(f) ==
    /\ IsSome(f.ident)
    /\ Len(DeclEntries(f)) = 2
    /\ \E i, j \in {1, 2} :
           /\ i # j
           /\ DeclEntries(f)[i] \in IgnoreEntries
           /\ DeclEntries(f)[j] \in {E_rename, E_display}

IsConflict(r, f) ==
    /\ IsErr(r)
    /\ \E k \in DOMAIN r.errs :
           /\ r.errs[k].kind = "ConflictingAttributes"
           /\ r.errs[k].field = Unwrap(f.ident)

\* C10: a field that declares `ignore` together with `rename` or `display`
\* fails with ConflictingAttributes naming the field, whatever the order of
\* the keys; in ParsedField::from_field and in ParseField::from_field.
C10_ConflictRejected ==
    DeclConflicting(field) =>
        /\ IsSome(parsed) => IsConflict(Unwrap(parsed), field)
        /\ IsSome(parse) => IsConflict(Unwrap(parse), field)

----------------------------------------------------------------------------
(* Claims about resolving a declaration (specification SpecResolve) *)

\* the annotation of field f is exactly `ignore = "custom"`
DeclIgnoreCustom(f) == DeclEntries(f) = <<E_ignore_custom>>

\* every field resolves on its own, and the type-level annotation is absent
\* or one `custom = <function>`
DeclFieldsResolve(item) ==
    \A i \in DOMAIN item.fields :
        DeclEntries(item.fields[i]) \in
            {<<>>, <<E_ignore>>, <<E_ignore_custom>>}
DeclTypeResolves(item) ==
    DeclEntries(item) \in {<<>>, <<E_custom>>, <<E_custom_other>>}

HasError(r, e) == IsErr(r) /\ \E k \in DOMAIN r.errs : r.errs[k] = e

\* C8: a declaration with a field marked `ignore = "custom"` and no
\* type-level `custom` fails with MissingCustomHook naming the field and the
\* type: from_ast reports it for every such field, from_derive_input reports
\* it when the hook is all that is missing; with `custom = f` and an Active
\* field the same declaration resolves in both.
C8_MissingCustomHook ==
    /\ ~DeclCustom(input) =>
           \A i \in DOMAIN input.fields :
               DeclIgnoreCustom(input.fields[i]) =>
                   /\ IsSome(container) =>
                          HasError(Unwrap(container),
                                   MissingCustomHook(
                                       Unwrap(input.fields[i].ident),
                                       input.ident))
                   /\ (/\ IsSome(pcontainer)
                       /\ DeclEntries(input) = <<>>
                       /\ DeclFieldsResolve(input)) =>
                          \E j \in DOMAIN input.fields :
                              /\ DeclIgnoreCustom(input.fields[j])
                              /\ Unwrap(pcontainer) =
                                     Err(<<MissingCustomHook(
                                               Unwrap(input.fields[j].ident),
                                               input.ident)>>)
    /\ (/\ DeclEntries(input) \in {<<E_custom>>, <<E_custom_other>>}
        /\ DeclFieldsResolve(input)
        /\ \E i \in DOMAIN input.fields : DeclIgnoreCustom(input.fields[i])
        /\ \E i \in DOMAIN input.fields : ~DeclIgnored(input.fields[i])) =>
           /\ IsSome(container) => IsOk(Unwrap(container))
           /\ IsSome(pcontainer) => IsOk(Unwrap(pcontainer))

C8_Witness ==
    /\ Len(input.fields) = 2 /\ DeclEntries(input) = <<>>
    /\ DeclIgnoreCustom(input.fields[1])
    /\ DeclEntries(input.fields[2]) = <<>>
    /\ IsSome(container) /\ IsErr(Unwrap(container))
    /\ IsSome(pcontainer) /\ IsErr(Unwrap(pcontainer))

\* the declaration has no defect other than an empty Active set
DeclOnlyLacksActive(item) ==
    /\ item.shape = "named"
    /\ DeclTypeResolves(item) /\ DeclFieldsResolve(item)
    /\ \A i \in DOMAIN item.fields : DeclIgnored(item.fields[i])
    /\ (\E i \in DOMAIN item.fields : DeclIgnoreCustom(item.fields[i]))
           => DeclCustom(item)

\* C9: a declaration with zero fields, or whose every field is ignored,
\* fails with NoComparableFields naming the type, and no resolution succeeds
\* with an empty Active set; in from_ast and in from_derive_input.
C9_NoComparableFields ==
    /\ DeclOnlyLacksActive(input) =>
           /\ IsSome(container) =>
                  Unwrap(container) = Err(<<NoComparableFields(input.ident)>>)
           /\ IsSome(pcontainer) =>
                  Unwrap(pcontainer) = Err(<<NoComparableFields(input.ident)>>)
    /\ (IsSome(container) /\ IsOk(Unwrap(container))) =>
           /\ Resolved(container).fields # <<>>
           /\ \A i \in DOMAIN Resolved(container).fields :
                  Resolved(container).fields[i].variant = "Active"
    /\ (IsSome(pcontainer) /\ IsOk(Unwrap(pcontainer))) =>
           \E i \in DOMAIN Resolved(pcontainer).fields :
               IsNone(Resolved(pcontainer).fields[i].ignore)

C9_Witness ==
    /\ Len(input.fields) = 2
    /\ \A i \in DOMAIN input.fields : DeclIgnored(input.fields[i])
    /\ DeclOnlyLacksActive(input)
    /\ IsSome(container) /\ IsSome(pcontainer)
    /\ Unwrap(container) = Err(<<NoComparableFields(input.ident)>>)
    /\ Unwrap(pcontainer) = Err(<<NoComparableFields(input.ident)>>)

----------------------------------------------------------------------------
(* Claims about attribute_lookup (specification SpecAttrs) *)

AttrEntries == NamespaceEntries(itemAttrs)

\* the entries that are well-formed in the scope of T
ValidEntries(T) ==
    IF T \in FieldAttrTypes
    THEN {E_rename, E_display, E_ignore, E_ignore_custom, E_ignore_reason}
    ELSE {E_custom, E_custom_other}

AllEntriesValid ==
    \A i \in DOMAIN AttrEntries : AttrEntries[i] \in ValidEntries(attrType)

\* the positions at which key occurs
Occurrences(key) == {i \in DOMAIN AttrEntries : AttrEntries[i].key = key}
AttrKeys == {AttrEntries[i].key : i \in DOMAIN AttrEntries}
ErrorsOf(errs, kind, key) ==
    {p \in DOMAIN errs : errs[p].kind = kind /\ errs[p].key = key}

\* C11: when every annotation of an item parses, attribute_lookup fails
\* exactly if some key occurs more than once; a key occurring k times gets
\* k-1 'duplicate attribute' errors, each at a later occurrence and directly
\* followed by its 'previously defined here' error at the occurrence before
\* it; on success the lookup holds the one value of each key.
C11_DuplicateAttribute ==
    (IsSome(lookupResult) /\ AllEntriesValid) =>
        IF \E key \in AttrKeys : Cardinality(Occurrences(key)) >= 2
        THEN /\ IsErr(Unwrap(lookupResult))
             /\ \A key \in AttrKeys :
                    Cardinality(ErrorsOf(Unwrap(lookupResult).errs,
                                         "DuplicateAttribute", key))
                        = Cardinality(Occurrences(key)) - 1
             /\ \A p \in DOMAIN Unwrap(lookupResult).errs :
                    LET errs == Unwrap(lookupResult).errs
                    IN IF p % 2 = 1
                       THEN /\ errs[p].kind = "DuplicateAttribute"
                            /\ p + 1 \in DOMAIN errs
                            /\ errs[p + 1].kind = "PreviouslyDefined"
                            /\ errs[p + 1].key = errs[p].key
                            /\ errs[p].span \in Occurrences(errs[p].key)
                            /\ errs[p + 1].span \in Occurrences(errs[p].key)
                            /\ errs[p + 1].span < errs[p].span
                            /\ \A i \in Occurrences(errs[p].key) :
                                   ~(errs[p + 1].span < i /\ i < errs[p].span)
                       ELSE errs[p].kind = "PreviouslyDefined"
        ELSE /\ IsOk(Unwrap(lookupResult))
             /\ DOMAIN Resolved(lookupResult) = AttrKeys
             /\ \A i \in DOMAIN AttrEntries :
                    Resolved(lookupResult)[AttrEntries[i].key].span = i

C11_Witness ==
    /\ attrType = "cache_diff_container::ParsedAttribute"
    /\ AttrEntries = <<E_custom, E_custom_other, E_custom>>
    /\ IsSome(lookupResult) /\ IsErr(Unwrap(lookupResult))
    /\ Len(Unwrap(lookupResult).errs) = 4

----------------------------------------------------------------------------
(* Claims about the errors of the container resolvers (SpecResolve) *)

HasErrorOf(r, kind, key) ==
    IsErr(r) /\ \E k \in DOMAIN r.errs :
                    r.errs[k].kind = kind /\ r.errs[k].key = key

\* the number of type-level annotations with key `custom` that parse
DeclCustomCount(item) ==
    Cardinality({i \in DOMAIN DeclEntries(item) :
                    DeclEntries(item)[i] \in {E_custom, E_custom_other}})

\* C12: a named struct with two or more type-level `custom` annotations
\* fails with DuplicateAttribute for `custom`; in from_ast and in
\* from_derive_input.
C12_DuplicateCustomRejected ==
    (/\ input.shape = "named"
     /\ DeclCustomCount(input) >= 2
     /\ DeclCustomCount(input) = Len(DeclEntries(input))) =>
        /\ IsSome(container) =>
               HasErrorOf(Unwrap(container), "DuplicateAttribute", "custom")
        /\ IsSome(pcontainer) =>
               HasErrorOf(Unwrap(pcontainer), "DuplicateAttribute", "custom")

\* the annotation of field f does not resolve: an entry is malformed or a
\* key is given twice
DeclFieldFails(f) ==
    \/ \E i \in DOMAIN DeclEntries(f) :
           DeclEntries(f)[i] \notin
               {E_rename, E_display, E_ignore, E_ignore_custom,
                E_ignore_reason}
    \/ \E i, j \in DOMAIN DeclEntries(f) :
           i # j /\ DeclEntries(f)[i].key = DeclEntries(f)[j].key
    \/ DeclConflicting(f)

DeclFailingFields(item) ==
    {i \in DOMAIN item.fields : DeclFieldFails(item.fields[i])}

\* the errors of a report that open a field's failure
FieldFailures(r) ==
    {k \in DOMAIN r.errs :
        r.errs[k].kind \in {"UnknownAttributeKey", "Syntax",
                            "DuplicateAttribute", "ConflictingAttributes"}}

\* C13: when n fields of a declaration fail to resolve (and the type-level
\* annotation is well-formed), the report holds an error of each of the n
\* fields; in from_ast and in from_derive_input.
C13_ErrorRollup ==
    (/\ input.shape = "named"
     /\ DeclTypeResolves(input)
     /\ DeclFailingFields(input) # {}) =>
        /\ IsSome(container) =>
               /\ IsErr(Unwrap(container))
               /\ Cardinality(FieldFailures(Unwrap(container)))
                      >= Cardinality(DeclFailingFields(input))
        /\ IsSome(pcontainer) =>
               /\ IsErr(Unwrap(pcontainer))
               /\ Cardinality(FieldFailures(Unwrap(pcontainer)))
                      >= Cardinality(DeclFailingFields(input))

----------------------------------------------------------------------------
(* Claims about unknown keys (specification SpecAttrs) *)

\* the position of the first annotation that does not parse
InvalidEntries ==
    {i \in DOMAIN AttrEntries : AttrEntries[i] \notin ValidEntries(attrType)}
FirstInvalid == CHOOSE i \in InvalidEntries : \A j \in InvalidEntries : i <= j

\* the keys of a scope, as a set, in sorted order and in the order in which
\* the scope's attribute enum declares them
ScopeKeys(T) ==
    IF T \in FieldAttrTypes THEN {"rename", "display", "ignore"}
    ELSE {"custom"}
SortedKeys(T) ==
    IF T \in FieldAttrTypes THEN <<"display", "ignore", "rename">>
    ELSE <<"custom">>
DeclaredKeys(T) ==
    IF T \in FieldAttrTypes THEN <<"rename", "display", "ignore">>
    ELSE <<"custom">>

\* the first annotation that does not parse has an unrecognized key
FirstInvalidIsUnknownKey ==
    /\ InvalidEntries # {}
    /\ AttrEntries[FirstInvalid].key \notin ScopeKeys(attrType)

HintGiven(r) ==
    \/ r.errs[1].hint
    \/ \E p \in DOMAIN r.errs : r.errs[p].kind = "CustomScopeHint"

----------------------------------------------------------------------------
(* Claims about calls of the emitted diff (SpecCalls, Spec) *)

\* C16: when the type declares a custom hook, every call of an emitted diff
\* invokes the hook exactly once, with old as first and self as second
\* argument; for the diff emitted by create_cache_diff and for the one
\* emitted by the entry point.
C16_HookOncePerCall ==
    DeclCustom(input) =>
        \A c \in Callers :
            callers[c].pc # "idle" =>
                callers[c].hook =
                    <<[fn |-> F_diff_fn, first |-> old, second |-> now]>>

----------------------------------------------------------------------------
(* Claims about the order of the container resolvers' checks (SpecResolve) *)

\* C19: for a declaration without named fields both container resolvers
\* return the UnsupportedShape error and nothing else.
C19_UnsupportedShapeFirst ==
    input.shape # "named" =>
        /\ IsSome(container) =>
               Unwrap(container) = Err(<<UnsupportedShape(input.ident)>>)
        /\ IsSome(pcontainer) =>
               Unwrap(pcontainer) = Err(<<UnsupportedShape(input.ident)>>)

\* no field of the declaration resolves to Active
DeclNoActive(item) ==
    \A i \in DOMAIN item.fields :
        DeclIgnored(item.fields[i]) \/ DeclFieldFails(item.fields[i])

\* C20: whenever no field of a named struct resolves to Active, the report
\* of from_ast holds NoComparableFields naming the type, next to whatever
\* other errors were produced.
C20_NoComparableFieldsCombined ==
    (input.shape = "named" /\ DeclNoActive(input) /\ IsSome(container)) =>
        HasError(Unwrap(container), NoComparableFields(input.ident))

----------------------------------------------------------------------------
(* Claims about the descriptors and reports of the container resolvers
   (specification SpecResolve) *)

\* C21: for a named struct without type-level annotation whose fields all
\* resolve, k of them marked `ignore = "custom"`, the report holds a
\* MissingCustomHook error for each of the k fields, naming the field and
\* the type; in from_ast and in from_derive_input.
C21_MissingCustomHookForEach ==
    (/\ input.shape = "named"
     /\ DeclEntries(input) = <<>>
     /\ DeclFieldsResolve(input)) =>
        \A i \in DOMAIN input.fields :
            DeclIgnoreCustom(input.fields[i]) =>
                /\ IsSome(container) =>
                       HasError(Unwrap(container),
                                MissingCustomHook(
                                    Unwrap(input.fields[i].ident),
                                    input.ident))
                /\ IsSome(pcontainer) =>
                       HasError(Unwrap(pcontainer),
                                MissingCustomHook(
                                    Unwrap(input.fields[i].ident),
                                    input.ident))

\* the identifiers of the declared fields that are not marked `ignore`, in
\* declaration order
RECURSIVE DeclActiveIdents(_)
DeclActiveIdents(fs) ==
    IF fs = <<>> THEN <<>>
    ELSE (IF DeclIgnored(Head(fs)) THEN <<>> ELSE <<Unwrap(Head(fs).ident)>>)
         \o DeclActiveIdents(Tail(fs))

\* C22: a descriptor that from_ast returns has a non-empty `fields`, which
\* holds exactly the fields that are not ignored, each as Active, in
\* declaration order; and `custom` is present if a field is marked
\* `ignore = "custom"`.
C22_DescriptorInvariants ==
    (IsSome(container) /\ IsOk(Unwrap(container))) =>
        /\ Resolved(container).fields # <<>>
        /\ \A k \in DOMAIN Resolved(container).fields :
               Resolved(container).fields[k].variant = "Active"
        /\ [k \in DOMAIN Resolved(container).fields |->
               Resolved(container).fields[k].field_identifier]
               = DeclActiveIdents(input.fields)
        /\ (\E i \in DOMAIN input.fields :
                DeclIgnoreCustom(input.fields[i]))
               => IsSome(Resolved(container).custom)

C22_Witness ==
    /\ IsSome(container) /\ IsOk(Unwrap(container))
    /\ Len(Resolved(container).fields) = 2
    /\ IsSome(Resolved(container).custom)

----------------------------------------------------------------------------
(* Claims about the length and the symmetry of diff results
   (specification Spec) *)

\* C23: the length of a diff result is the length of the hook's output (0
\* when the type declares no hook) plus the number of Active fields whose
\* values differ: every differing Active field gives exactly one entry and
\* an ignored field gives none; in the implementation of either generator.
C23_ResultLength ==
    LET expected == (IF DeclCustom(input) THEN Len(HookOutput) ELSE 0)
                    + Len(DifferingActive(input.fields, now, old))
    IN /\ IsSome(out) => Len(Unwrap(out)) = expected
       /\ IsSome(outToo) => Len(Unwrap(outToo)) = expected

----------------------------------------------------------------------------
(* Claims about ignored fields (specification SpecField) *)

\* C24: ParsedField::from_field classifies an `ignore` annotation by its
\* reason alone: the value "custom" gives IgnoredCustom, any other value and
\* an absent value give IgnoredOther; a field that declares `ignore` never
\* resolves to Active, and its descriptor holds no label and no format_ref.
C24_IgnoreClassifiedByReason ==
    (IsSome(parsed) /\ IsSome(field.ident) /\ DeclIgnored(field)) =>
        /\ Len(DeclEntries(field)) = 1 =>
               /\ IsOk(Unwrap(parsed))
               /\ Resolved(parsed).variant =
                      (IF DeclEntries(field)[1].vkind = "str"
                          /\ DeclEntries(field)[1].val = S_custom
                       THEN "IgnoredCustom" ELSE "IgnoredOther")
        /\ IsOk(Unwrap(parsed)) =>
               /\ Resolved(parsed).variant # "Active"
               /\ Resolved(parsed).name = <<>>
               /\ Resolved(parsed).display_fn = <<>>

C24_Witness ==
    /\ IsSome(parsed) /\ IsOk(Unwrap(parsed))
    /\ DeclEntries(field) = <<E_ignore_custom>>
    /\ Resolved(parsed).variant = "IgnoredCustom"

----------------------------------------------------------------------------
(* Claims about annotation blocks (specification SpecAttrs) *)

\* C25: when an annotation holds invalid entries, attribute_lookup fails
\* with exactly one grammar error, the one of the first invalid entry (a
\* `custom` hint of that same entry may accompany it); later entries, valid,
\* invalid or repeated, contribute no error.
C25_StopsAtFirstInvalid ==
    (IsSome(lookupResult) /\ InvalidEntries # {}) =>
        /\ IsErr(Unwrap(lookupResult))
        /\ \A p \in DOMAIN Unwrap(lookupResult).errs :
               /\ Unwrap(lookupResult).errs[p].span = FirstInvalid
               /\ Unwrap(lookupResult).errs[p].kind
                      \in {"UnknownAttributeKey", "Syntax", "CustomScopeHint"}
        /\ Cardinality({p \in DOMAIN Unwrap(lookupResult).errs :
                           Unwrap(lookupResult).errs[p].kind
                               \in {"UnknownAttributeKey", "Syntax"}}) = 1
        /\ Unwrap(lookupResult).errs[1].kind =
               (IF FirstInvalidIsUnknownKey THEN "UnknownAttributeKey"
                ELSE "Syntax")

C25_Witness ==
    /\ attrType = "cache_diff_container::ParsedAttribute"
    /\ Len(itemAttrs) = 1
    /\ AttrEntries = <<E_unknown, E_custom_bare>>
    /\ IsSome(lookupResult) /\ IsErr(Unwrap(lookupResult))
    /\ Len(Unwrap(lookupResult).errs) = 1
    /\ Unwrap(lookupResult).errs[1].key = "unknown"

----------------------------------------------------------------------------
(* Further claims about the reports of the container resolvers
   (specification SpecResolve) *)

\* the declaration carries a type-level `custom = <function>` annotation
DeclCarriesCustom(item) ==
    \E i \in DOMAIN DeclEntries(item) :
        DeclEntries(item)[i] \in {E_custom, E_custom_other}

\* C26: the report of from_ast on a named struct that carries a type-level
\* `custom = <function>` annotation holds no MissingCustomHook error, also
\* when another type-level annotation is invalid or a duplicate.
C26_NoMissingHookWhenDeclared ==
    (/\ IsSome(container)
     /\ input.shape = "named"
     /\ DeclCarriesCustom(input)) =>
        ~HasErrorOf(Unwrap(container), "MissingCustomHook", "custom")

----------------------------------------------------------------------------
(* Claims relating two diff procedures or two calls (specification Spec) *)

\* C27: the two pipelines are equivalent: create_cache_diff and the entry
\* point (create_cache_diff_too) accept the same declarations, and for an
\* accepted declaration the two emitted diffs return the same sequence, for
\* a call and for its reverse call.
C27_PipelinesEquivalent ==
    /\ (IsSome(impl) /\ IsSome(implToo)) =>
           (IsOk(Unwrap(impl)) <=> IsOk(Unwrap(implToo)))
    /\ (IsSome(out) /\ IsSome(outToo)) => out = outToo
    /\ (IsSome(back) /\ IsSome(backToo)) => back = backToo

\* the positions of the value delimiters of a per-field entry
Ticks(entry) == {i \in DOMAIN entry : entry[i] = "BACKTICK"}
Least(S) == CHOOSE i \in S : \A j \in S : i <= j
Greatest(S) == CHOOSE i \in S : \A j \in S : j <= i

\* a per-field entry with its old and new values exchanged
Exchanged(entry) ==
    LET t1 == Least(Ticks(entry))
        t4 == Greatest(Ticks(entry))
        t2 == Least(Ticks(entry) \ {t1})
        t3 == Greatest(Ticks(entry) \ {t4})
    IN SubSeq(entry, 1, t1 - 1) \o SubSeq(entry, t3, t4)
           \o SubSeq(entry, t2 + 1, t3 - 1) \o SubSeq(entry, t1, t2)
           \o SubSeq(entry, t4 + 1, Len(entry))

\* result and reverse are each other's image under exchanging old and new
Mirrored(result, reverse) ==
    /\ Len(result) = Len(reverse)
    /\ \A k \in DOMAIN result :
           /\ k \in DOMAIN reverse
           /\ Cardinality(Ticks(result[k])) = 4
           /\ Cardinality(Ticks(reverse[k])) = 4
           /\ LabelOf(result[k]) = LabelOf(reverse[k])
           /\ result[k] = Exchanged(reverse[k])
           /\ result[k] # reverse[k]
    /\ result = <<>> <=> reverse = <<>>

\* C28: for a type without custom hook, now.diff(&old) and old.diff(&now)
\* have the same length and the same labels in the same order, and each
\* entry of one is the other's entry with old and new values exchanged; one
\* is empty exactly when the other is. For either generator's diff.
C28_DiffSymmetric ==
    ~DeclCustom(input) =>
        /\ (IsSome(out) /\ IsSome(back)) => Mirrored(Unwrap(out), Unwrap(back))
        /\ (IsSome(outToo) /\ IsSome(backToo)) =>
               Mirrored(Unwrap(outToo), Unwrap(backToo))

C28_Witness ==
    /\ ~DeclCustom(input)
    /\ IsSome(out) /\ IsSome(back) /\ IsSome(outToo) /\ IsSome(backToo)
    /\ Len(Unwrap(out)) = 2
    /\ Len(Unwrap(backToo)) = 2

----------------------------------------------------------------------------
(* Claims about items with several attributes (specification SpecAttrs) *)

\* the entries of the `cache_diff` attributes of an item, read from the last
\* attribute backwards
RECURSIVE CacheDiffEntries(_)
CacheDiffEntries(as) ==
    IF as = <<>> THEN <<>>
    ELSE CacheDiffEntries(SubSeq(as, 1, Len(as) - 1))
         \o (IF as[Len(as)].ns = "cache_diff" THEN as[Len(as)].entries
             ELSE <<>>)

\* C29: attribute_lookup on an item returns what it returns when all the
\* item's `cache_diff` entries are written in one block and the attributes of
\* other namespaces are removed: when all entries parse, a key written twice,
\* in one block or in two, gets a DuplicateAttribute error at its later
\* occurrence, and an item whose keys are distinct resolves, whatever
\* attributes of other namespaces it carries.
C29_DuplicatesAcrossBlocks ==
    IsSome(lookupResult) =>
        LET es == CacheDiffEntries(itemAttrs)
            r == Unwrap(lookupResult)
            valid == \A i \in DOMAIN es : es[i] \in ValidEntries(attrType)
        IN /\ r = attribute_lookup(AttrsOf(es), attrType)
           /\ valid =>
                  \A i, j \in DOMAIN es :
                      (i < j /\ es[i].key = es[j].key) =>
                          /\ IsErr(r)
                          /\ \E p \in DOMAIN r.errs :
                                 /\ r.errs[p].kind = "DuplicateAttribute"
                                 /\ r.errs[p].key = es[j].key
                                 /\ r.errs[p].span = j
           /\ (valid /\ \A i, j \in DOMAIN es :
                            es[i].key = es[j].key => i = j) => IsOk(r)

C29_Witness ==
    /\ attrType = "cache_diff_field::ParsedAttribute"
    /\ itemAttrs = <<[ns |-> NAMESPACE, entries |-> <<E_ignore>>],
                     ForeignAttr,
                     [ns |-> NAMESPACE, entries |-> <<E_ignore_custom>>]>>
    /\ IsSome(lookupResult) /\ IsErr(Unwrap(lookupResult))
    /\ Len(Unwrap(lookupResult).errs) = 2
    /\ Unwrap(lookupResult).errs[1].kind = "DuplicateAttribute"
    /\ Unwrap(lookupResult).errs[1].span = 2

----------------------------------------------------------------------------
(* Claims about the order of the errors in a report (specification
   SpecResolve) *)

\* what identifies an error of a report: its kind, the key and the position
\* of the entry it points at, and the field it names
Sig(kind, key, span, fld) ==
    [kind |-> kind, key |-> key, span |-> span, field |-> fld]
SigOf(e) == Sig(e.kind, e.key, e.span, e.field)

\* the duplicate pairs of a list of entries from position j on: every entry
\* whose key was written before gives 'duplicate attribute' at its own
\* position, directly followed by 'previously defined here' at the position
\* of the last earlier entry with that key
RECURSIVE DuplicatePairs(_, _)
DuplicatePairs(es, j) ==
    IF j > Len(es) THEN <<>>
    ELSE LET earlier == {i \in 1..(j - 1) : es[i].key = es[j].key}
         IN (IF earlier = {} THEN <<>>
             ELSE <<Sig("DuplicateAttribute", es[j].key, j, <<>>),
                    Sig("PreviouslyDefined", es[j].key, Greatest(earlier),
                        <<>>)>>)
            \o DuplicatePairs(es, j + 1)

\* the errors raised by the annotations es of one item: the grammar error of
\* the first invalid entry, or else the duplicate pairs
AnnotationErrors(es, validEntries, keys) ==
    LET invalid == {i \in DOMAIN es : es[i] \notin validEntries}
    IN IF invalid # {}
       THEN IF es[Least(invalid)].key \in keys
            THEN <<Sig("Syntax", "", Least(invalid), <<>>)>>
            ELSE <<Sig("UnknownAttributeKey", es[Least(invalid)].key,
                       Least(invalid), <<>>)>>
       ELSE DuplicatePairs(es, 1)

TypeErrors(item) ==
    AnnotationErrors(DeclEntries(item), {E_custom, E_custom_other},
                     {"custom"})

\* the errors raised at one field: those of its annotations, or the missing
\* hook of a field marked `ignore = "custom"` when no hook was resolved
FieldErrors(item, f) ==
    LET own == AnnotationErrors(DeclEntries(f),
                                {E_ignore, E_ignore_custom, E_ignore_reason},
                                {"rename", "display", "ignore"})
    IN IF own # <<>> THEN own
       ELSE IF DeclIgnoreCustom(f)
               /\ (TypeErrors(item) # <<>> \/ ~DeclCarriesCustom(item))
       THEN <<Sig("MissingCustomHook", "custom", 0, Unwrap(f.ident))>>
       ELSE <<>>

RECURSIVE AllFieldErrors(_, _)
AllFieldErrors(item, fs) ==
    IF fs = <<>> THEN <<>>
    ELSE FieldErrors(item, Head(fs)) \o AllFieldErrors(item, Tail(fs))

\* C30: the report of from_ast on a named struct lists the errors of the
\* type-level annotations first, then the errors of the fields in
\* declaration order (a field's annotation errors, or its MissingCustomHook,
\* at the field's position), each 'duplicate attribute' directly before its
\* 'previously defined here'; no raised error is missing and, when errors
\* were raised, the report holds nothing else.
C30_ReportOrder ==
    (IsSome(container) /\ input.shape = "named") =>
        LET raised == TypeErrors(input) \o AllFieldErrors(input, input.fields)
            r == Unwrap(container)
        IN IF raised = <<>>
           THEN IsErr(r) =>
                    r.errs = <<NoComparableFields(input.ident)>>
           ELSE /\ IsErr(r)
                /\ [p \in DOMAIN r.errs |-> SigOf(r.errs[p])] = raised

C30_Witness ==
    /\ IsSome(container) /\ IsErr(Unwrap(container))
    /\ DeclEntries(input) = <<E_unknown>>
    /\ Len(input.fields) = 2
    /\ Len(Unwrap(container).errs) = 4
    /\ Unwrap(container).errs[1].kind = "UnknownAttributeKey"
    /\ Unwrap(container).errs[2].kind = "DuplicateAttribute"
    /\ Unwrap(container).errs[3].kind = "PreviouslyDefined"
    /\ Unwrap(container).errs[4].kind = "MissingCustomHook"

====
